---- MODULE Spec2Model ----
(***************************************************************************)
(* A model of the glyph compositing engine of the synthetic handwriting    *)
(* generators:                                                             *)
(*   gen_casia_company.py            generate_synthetic_image  (flowing)   *)
(*   gen_handwriting_chinese_price.py generate_capital_number_image        *)
(*                                                              (slotted)  *)
(* An image is modelled by its size, a glyph mask by <<width, height>>.    *)
(* Random draws are nondeterministic choices.  Python floats are IEEE      *)
(* doubles; every float expression of the source that is truncated by      *)
(* int() is modelled by an integer operator that yields the same integer.  *)
(***************************************************************************)
EXTENDS Integers, Sequences, FiniteSets, TLC

VARIABLES
    pc,                     \* position inside the generator being run
    result,                 \* "pending", "image" (image, label), "none" (None, None), "raise"
    char_map,               \* the sample index: [kind, samples], samples: character -> number of paths
    bg_ok,                  \* background_path can be opened as an image
    canvas_size,            \* <<width, height>> of the background image
    company_name,           \* the label of generate_synthetic_image, a sequence of characters
    reference_field_bbox,   \* <<xmin, ymin, xmax, ymax>>
    mask_calls,             \* glyph extractions (_get_char_mask calls that chose a sample) so far
    bg_reads,               \* Image.open(background_path) calls so far
    processed_char_masks,   \* gen_casia_company.py:138/177, sizes of the masks
    max_h,                  \* gen_casia_company.py:150
    normIn,                 \* the batch the last normalization pass was given
    norm_targets,           \* per glyph of normIn: the size handed to resize, <<>> if dropped
    passes,                 \* normalization passes made so far
    spacings,               \* gen_casia_company.py:181
    scale_factor,           \* gen_casia_company.py:190-196, [n, d, fit]: n/d, or the fitted quotient
    scaled_char_data,       \* gen_casia_company.py:199, sizes <<nw, nh>>
    total_w_scaled,         \* gen_casia_company.py:226
    placed,                 \* rectangles <<x, y, w, h>> pasted on the canvas, in order
    curr_x,                 \* gen_casia_company.py:246-261
    crop_box,               \* the box handed to canvas.crop, <<>> before that
    target_bboxes,          \* the slot rectangles of generate_capital_number_image
    start_index,            \* gen_handwriting_chinese_price.py:202, -1 before it is drawn
    label_chars,            \* gen_handwriting_chinese_price.py:160, segments <<character, unit>>
    line_bboxes,            \* gen_handwriting_chinese_price.py:204
    paste_failures,         \* _paste_single_char calls that returned False
    struck,                 \* the strikethrough branch (line 234) was taken
    final_label,            \* gen_handwriting_chinese_price.py:264, the joined characters
    x_start,                \* gen_handwriting_chinese_price.py:240
    x_end,                  \* gen_handwriting_chinese_price.py:241
    points,                 \* gen_handwriting_chinese_price.py:243, the x coordinates
    main_pc,                \* position inside main of gen_handwriting_chinese_price.py
    bg_exists,              \* os.path.exists(args.bg_image)
    count,                  \* args.count
    successful_generations, \* gen_handwriting_chinese_price.py:331
    bg_pixel_value,         \* gen_casia_company.py:83, intensity of the top-left pixel
    pixel,                  \* intensity of the pixel being classified
    mask_value              \* the mask's value for that pixel: 255 foreground, 0 background

inputVars == <<char_map, bg_ok, canvas_size>>
flowInputs == <<company_name, reference_field_bbox>>
normVars == <<processed_char_masks, max_h, normIn, norm_targets, passes>>
layoutVars == <<spacings, scale_factor, scaled_char_data>>
pasteVars == <<total_w_scaled, placed, curr_x, crop_box>>
flowVars == <<flowInputs, mask_calls, bg_reads, normVars, layoutVars, pasteVars>>
fillVars == <<start_index, label_chars, line_bboxes, paste_failures>>
strikeVars == <<x_start, x_end, points>>
slotVars == <<target_bboxes, fillVars, struck, final_label, strikeVars>>
mainVars == <<main_pc, bg_exists, count, successful_generations>>
pixelVars == <<bg_pixel_value, pixel, mask_value>>
vars == <<pc, result, inputVars, flowVars, slotVars, mainVars, pixelVars>>

\* ------------------------------------------------------------------ bounds

MaxMaskW == 9       \* widths 1..MaxMaskW of the exhaustive mask grid
MaxMaskH == 4       \* heights 1..MaxMaskH of the exhaustive mask grid
MaxBatch == 2       \* glyphs per batch
MaxPasses == 2      \* normalization applied to its own output once
MaxLabelLen == 2    \* characters of a label
MaxDigit == 1       \* the digits 0..MaxDigit of TARGET_CHAR_SET are drawn
MaxBlank == 2       \* blank slots under the strikethrough
MaxCount == 2       \* images asked of the batch driver

\* ------------------------------------------------------------- arithmetic

Max(a, b) == IF a >= b THEN a ELSE b
Min(a, b) == IF a <= b THEN a ELSE b

\* Python int(): truncation toward zero of n/d, d > 0.
Trunc(n, d) == IF n >= 0 THEN n \div d ELSE -((-n) \div d)

RECURSIVE Pow2(_)
Pow2(n) == IF n <= 0 THEN 1 ELSE 2 * Pow2(n - 1)

RECURSIVE Log2Floor(_)
Log2Floor(n) == IF n <= 1 THEN 0 ELSE 1 + Log2Floor(n \div 2)

IsPow2(k) == k = Pow2(Log2Floor(k))

\* 2^e mod h
RECURSIVE Pow2Mod(_, _)
Pow2Mod(e, h) == IF e <= 0 THEN 1 % h ELSE (2 * Pow2Mod(e - 1, h)) % h

\* floor(log2(w / h)) for w, h >= 1
RECURSIVE RatioExpUp(_, _, _)
RatioExpUp(w, h, e) == IF w >= h * Pow2(e + 1) THEN RatioExpUp(w, h, e + 1) ELSE e
RECURSIVE RatioExpDown(_, _, _)
RatioExpDown(w, h, e) == IF w * Pow2(e) < h THEN RatioExpDown(w, h, e + 1) ELSE -e
RatioExp(w, h) == IF w >= h THEN RatioExpUp(w, h, 0) ELSE RatioExpDown(w, h, 1)

\* The double w / h has a 53 bit mantissa q = round(w * 2^e / h), e = 52 - RatioExp.
\* RatioRem is (w * 2^e) mod h: 0 when the quotient is exact, < h/2 when the
\* double lies below w/h (by RatioRem / (h * 2^e)), > h/2 when it lies above
\* (by (h - RatioRem) / (h * 2^e)).  A tie needs a 54 bit odd divisor of w.
RatioRem(w, h) == ((w % h) * Pow2Mod(52 - RatioExp(w, h), h)) % h

\* Half the gap between the integer k and the double below it is
\* 2^(Log2Floor(k) - 53), and half of that when k is a power of two.
GapFactor(k) == IF IsPow2(k) THEN 4 ELSE 2

\* int(H * (w / h)) as Python computes it: the double w / h, the product rounded
\* to a double, the truncation.  Only an exactly integral H*w/h can be missed.
MulRatio(H, w, h) ==
    LET k   == (H * w) \div h
        E   == RatioExp(w, h)
        rem == RatioRem(w, h)
    IN  IF (H * w) % h # 0 \/ k = 0 \/ rem = 0 \/ 2 * rem > h THEN k
        ELSE IF GapFactor(k) * H * rem * Pow2(E) <= h * Pow2(Log2Floor(k) + Max(-E, 0))
             THEN k ELSE k - 1

\* int(tw / (w / h)) as Python computes it.
DivRatio(tw, w, h) ==
    LET k   == (tw * h) \div w
        E   == RatioExp(w, h)
        rem == RatioRem(w, h)
    IN  IF (tw * h) % w # 0 \/ k = 0 \/ rem = 0 \/ 2 * rem < h THEN k
        ELSE IF GapFactor(k) * k * (h - rem) * Pow2(E) <= w * Pow2(Log2Floor(k) + Max(-E, 0))
             THEN k ELSE k - 1

\* int(max_h * 0.9) and int(max_h * 0.15): for max_h < 20000 the doubles 0.9
\* and 0.15 give the exact floors.
IntMul09(h) == (9 * h) \div 10
IntMul015(h) == (15 * h) \div 100

\* ------------------------------------------------------------ mask inputs

\* Sizes on which the double rounding of w / h changes a truncation.
RoundingSizes == {<<7, 5>>, <<1, 11>>, <<15, 11>>, <<18, 7>>}

\* getbbox crops: a mask is at least 1 x 1.
MaskSizes == ((1..MaxMaskW) \X (1..MaxMaskH)) \cup RoundingSizes

RECURSIVE SeqsUpTo(_, _)
SeqsUpTo(S, n) ==
    IF n = 0 THEN {<<>>}
    ELSE LET shorter == SeqsUpTo(S, n - 1)
         IN  shorter \cup {Append(s, x) : s \in {t \in shorter : Len(t) = n - 1}, x \in S}

Batches == SeqsUpTo(MaskSizes, MaxBatch) \ {<<>>}


\* ----------------------------------------------------------- flow inputs

FlowChars == {"a", "b"}
Kinds == {"dict", "defaultdict"}

\* A sample index over the characters S: a plain or a defaulting mapping from
\* some of them to a list of paths (its length; a defaulting mapping that was
\* read at a missing key holds an empty list).
RECURSIVE PartialMaps(_)
PartialMaps(S) ==
    IF S = {} THEN {<<>>}
    ELSE LET c == CHOOSE x \in S : TRUE
             rest == PartialMaps(S \ {c})
         IN  rest \cup {(c :> n) @@ f : n \in {0, 1}, f \in rest}
CharMaps(S) == [kind : Kinds, samples : PartialMaps(S)]

Labels == SeqsUpTo(FlowChars, MaxLabelLen)

\* Mask sizes a sample can give after thresholding, cropping and rotation.
FlowMaskSizes == {<<3, 2>>, <<5, 2>>, <<9, 4>>}

DefaultCanvas == <<40, 30>>
DefaultField == <<5, 5, 21, 25>>
\* a usual field, a field of width < 10 and height <= 6, a field right of the canvas
FlowFields == {DefaultField, <<5, 5, 13, 9>>, <<50, 5, 66, 25>>}

\* random.uniform(0.75, 0.90), as a fraction <<n, d>>
HeightFactors == {<<3, 4>>, <<4, 5>>, <<9, 10>>}

IdleLayout ==
    /\ spacings = <<>>
    /\ scale_factor = [n |-> 0, d |-> 1, fit |-> FALSE]
    /\ scaled_char_data = <<>>
IdlePaste ==
    /\ total_w_scaled = 0
    /\ placed = <<>>
    /\ curr_x = 0
    /\ crop_box = <<>>
IdleFlow ==
    /\ company_name = <<>>
    /\ reference_field_bbox = DefaultField
    /\ mask_calls = 0
    /\ bg_reads = 0
    /\ processed_char_masks = <<>>
    /\ max_h = 0
    /\ normIn = <<>>
    /\ norm_targets = <<>>
    /\ passes = 0
    /\ IdleLayout
    /\ total_w_scaled = 0
    /\ placed = <<>>
    /\ curr_x = 0
IdleStrike ==
    /\ x_start = 0
    /\ x_end = 0
    /\ points = <<>>
IdleMain ==
    /\ main_pc = "idle"
    /\ bg_exists = TRUE
    /\ count = 0
    /\ successful_generations = 0
IdlePixel ==
    /\ bg_pixel_value = 0
    /\ pixel = 0
    /\ mask_value = 0
IdleSlot ==
    /\ start_index = -1
    /\ label_chars = <<>>
    /\ line_bboxes = <<>>
    /\ paste_failures = 0
    /\ struck = FALSE
    /\ final_label = <<>>
    /\ IdleStrike

\* --------------------------------------------------------- normalization

RECURSIVE MaxHeight(_)
MaxHeight(masks) ==
    IF masks = <<>> THEN 0 ELSE Max(masks[1][2], MaxHeight(Tail(masks)))

\* aspect_ratio > 2.0: the double w / h exceeds 2.0 exactly when w > 2h.
IsFlatGe(mask) == mask[1] >= 2 * mask[2]
is_flat_char(mask) == mask[1] > 2 * mask[2]

\* The size one loop iteration hands to mask.resize, <<>> for `continue`.
NormTarget(mask, mh) ==
    IF mask[2] = 0 THEN <<>>
    ELSE IF is_flat_char(mask)
         THEN LET target_width == IntMul09(mh)
                  new_height == Max(DivRatio(target_width, mask[1], mask[2]), IntMul015(mh))
              IN  IF target_width = 0 THEN <<>> ELSE <<target_width, new_height>>
         ELSE LET new_width == MulRatio(mh, mask[1], mask[2])
              IN  IF new_width = 0 THEN <<>> ELSE <<new_width, mh>>

\* Image.resize raises ValueError ("height and width must be > 0") otherwise.
ResizeOk(size) == size[1] >= 1 /\ size[2] >= 1

\* The loop of lines 155-175: the targets up to and including the first resize
\* that raises.
RECURSIVE NormLoop(_, _, _)
NormLoop(masks, mh, done) ==
    IF masks = <<>> THEN done
    ELSE LET t == NormTarget(Head(masks), mh)
         IN  IF t # <<>> /\ ~ResizeOk(t) THEN Append(done, t)
             ELSE NormLoop(Tail(masks), mh, Append(done, t))

Raised(targets) == \E i \in 1..Len(targets) : targets[i] # <<>> /\ ~ResizeOk(targets[i])

RECURSIVE Kept(_)
Kept(targets) ==
    IF targets = <<>> THEN <<>>
    ELSE IF Head(targets) = <<>> THEN Kept(Tail(targets))
         ELSE <<Head(targets)>> \o Kept(Tail(targets))

\* gen_casia_company.py:148-178
Normalize ==
    /\ pc = "normalize"
    /\ LET mh == MaxHeight(processed_char_masks)
           targets == NormLoop(processed_char_masks, mh, <<>>)
       IN  /\ normIn' = processed_char_masks
           /\ passes' = passes + 1
           /\ max_h' = mh
           /\ UNCHANGED <<inputVars, flowInputs, mask_calls, bg_reads, layoutVars, pasteVars, slotVars>>
           /\ IF mh = 0
              THEN /\ norm_targets' = <<>>
                   /\ processed_char_masks' = processed_char_masks
                   /\ pc' = "done" /\ result' = "none"
              ELSE /\ norm_targets' = targets
                   /\ IF Raised(targets)
                      THEN /\ processed_char_masks' = processed_char_masks
                           /\ pc' = "done" /\ result' = "raise"
                      ELSE /\ processed_char_masks' = Kept(targets)
                           /\ IF Kept(targets) = <<>>
                              THEN pc' = "done" /\ result' = "none"
                              ELSE pc' = "layout" /\ result' = result
    /\ UNCHANGED <<mainVars, pixelVars>>

\* The normalization step applied to its own output.
Renormalize ==
    /\ pc = "layout"
    /\ passes < MaxPasses
    /\ pc' = "normalize"
    /\ UNCHANGED <<result, inputVars, flowVars, slotVars>>
    /\ UNCHANGED <<mainVars, pixelVars>>

InitNorm ==
    /\ pc = "normalize"
    /\ result = "pending"
    /\ processed_char_masks \in Batches
    /\ max_h = 0
    /\ normIn = <<>>
    /\ norm_targets = <<>>
    /\ passes = 0
    /\ char_map = [kind |-> "defaultdict", samples |-> [c \in FlowChars |-> 1]]
    /\ bg_ok = TRUE
    /\ canvas_size = DefaultCanvas
    /\ company_name = <<>>
    /\ reference_field_bbox = DefaultField
    /\ mask_calls = 0
    /\ bg_reads = 0
    /\ IdleLayout
    /\ IdlePaste
    /\ target_bboxes = <<>>
    /\ IdleSlot
    /\ IdleMain
    /\ IdlePixel

NextNorm == Normalize \/ Renormalize

SpecNorm == InitNorm /\ [][NextNorm]_vars

\* ------------------------------------------------ generate_synthetic_image

Finish(r) == pc' = "done" /\ result' = r

\* gen_casia_company.py:133-135
MissingFirstOnly(name, cm) == name # <<>> /\ name[1] \notin DOMAIN cm.samples
MissingChar(name, cm) == \E i \in 1..Len(name) : name[i] \notin DOMAIN cm.samples

\* gen_casia_company.py:129-135, and 146 for a label of no characters
CheckLabel ==
    /\ pc = "check"
    /\ IF MissingChar(company_name, char_map) \/ company_name = <<>>
       THEN Finish("none")
       ELSE pc' = "extract" /\ result' = result
    /\ UNCHANGED <<inputVars, flowVars, slotVars>>
    /\ UNCHANGED <<mainVars, pixelVars>>

\* One iteration of the loop of lines 139-144 with its call of _get_char_mask
\* (lines 69-111).  random.choice of an empty list raises IndexError at line 77,
\* outside the try.  A sample gives a mask, or None when it cannot be read or
\* holds no foreground.
ExtractChar ==
    /\ pc = "extract"
    /\ mask_calls' = mask_calls + 1
    /\ LET char == company_name[Len(processed_char_masks) + 1]
       IN  IF char \notin DOMAIN char_map.samples
           THEN Finish("none") /\ UNCHANGED processed_char_masks
           ELSE IF char_map.samples[char] = 0
           THEN Finish("raise") /\ UNCHANGED processed_char_masks
           ELSE \/ Finish("none") /\ UNCHANGED processed_char_masks
                \/ \E mask \in FlowMaskSizes :
                      /\ processed_char_masks' = Append(processed_char_masks, mask)
                      /\ pc' = IF Len(processed_char_masks) + 1 = Len(company_name)
                               THEN "normalize" ELSE "extract"
                      /\ result' = result
    /\ UNCHANGED <<inputVars, flowInputs, bg_reads, max_h, normIn, norm_targets, passes,
                   layoutVars, pasteVars, slotVars>>
    /\ UNCHANGED <<mainVars, pixelVars>>

RECURSIVE SumW(_)
SumW(masks) == IF masks = <<>> THEN 0 ELSE masks[1][1] + SumW(Tail(masks))

RECURSIVE SumSeq(_)
SumSeq(q) == IF q = <<>> THEN 0 ELSE q[1] + SumSeq(Tail(q))

\* [random.randint(2, 10) for _ in range(n - 1)]
SpacingChoices(n) == IF n <= 1 THEN {<<>>} ELSE [1..(n - 1) -> 2..10]

\* gen_casia_company.py:189-196.  u is the draw of random.uniform(0.75, 0.90).
ScaleFactorNoFit(total, fw, fh, u, mh) ==
    LET n == (fh - 6) * u[1]
        d == u[2] * mh
    IN  IF 2 * n > 5 * d THEN [n |-> 5, d |-> 2, fit |-> FALSE]
        ELSE [n |-> n, d |-> d, fit |-> FALSE]
ScaleFactor(total, fw, fh, u, mh) ==
    LET n == (fh - 6) * u[1]
        d == u[2] * mh
        fitted == total * n > (fw - 10) * d
        sn == IF fitted THEN fw - 10 ELSE n
        sd == IF fitted THEN total ELSE d
    IN  IF 2 * sn > 5 * sd THEN [n |-> 5, d |-> 2, fit |-> FALSE]
        ELSE [n |-> sn, d |-> sd, fit |-> fitted]

\* int(x * scale_factor): the fitted scale is the double (fw - 10) / total.
ScaleMul(x, sf) ==
    IF sf.n = 0 THEN 0
    ELSE IF sf.fit
         THEN IF sf.n > 0 THEN MulRatio(x, sf.n, sf.d) ELSE -MulRatio(x, -sf.n, sf.d)
         ELSE Trunc(x * sf.n, sf.d)

\* The loop of lines 200-204: per mask the size handed to resize, <<>> for
\* `continue`, up to and including the first resize that raises.
RECURSIVE ScaleLoop(_, _, _)
ScaleLoop(masks, sf, done) ==
    IF masks = <<>> THEN done
    ELSE LET nw == ScaleMul(Head(masks)[1], sf)
             nh == ScaleMul(Head(masks)[2], sf)
             t == IF nw = 0 \/ nh = 0 THEN <<>> ELSE <<nw, nh>>
         IN  IF t # <<>> /\ ~ResizeOk(t) THEN Append(done, t)
             ELSE ScaleLoop(Tail(masks), sf, Append(done, t))

FieldWidth(bbox) == bbox[3] - bbox[1]
FieldHeight(bbox) == bbox[4] - bbox[2]

\* gen_casia_company.py:180-206
Layout ==
    /\ pc = "layout"
    /\ \E sp \in SpacingChoices(Len(processed_char_masks)), u \in HeightFactors :
          LET original_total_width == SumW(processed_char_masks) + SumSeq(sp)
              sf == ScaleFactor(original_total_width, FieldWidth(reference_field_bbox),
                                FieldHeight(reference_field_bbox), u, max_h)
              targets == ScaleLoop(processed_char_masks, sf, <<>>)
          IN  /\ spacings' = sp
              /\ IF original_total_width = 0
                 THEN /\ Finish("none")
                      /\ UNCHANGED <<scale_factor, scaled_char_data>>
                 ELSE /\ scale_factor' = sf
                      /\ scaled_char_data' = Kept(targets)
                      /\ IF Raised(targets) THEN Finish("raise")
                         ELSE IF Kept(targets) = <<>> THEN Finish("none")
                         ELSE pc' = "background" /\ result' = result
    /\ UNCHANGED <<inputVars, flowInputs, mask_calls, bg_reads, normVars, pasteVars, slotVars>>
    /\ UNCHANGED <<mainVars, pixelVars>>

\* gen_casia_company.py:208-223
LoadBackground ==
    /\ pc = "background"
    /\ bg_reads' = bg_reads + 1
    /\ IF bg_ok THEN pc' = "composite" /\ result' = result ELSE Finish("none")
    /\ UNCHANGED <<inputVars, flowInputs, mask_calls, normVars, layoutVars, pasteVars, slotVars>>
    /\ UNCHANGED <<mainVars, pixelVars>>

\* gen_casia_company.py:226
RECURSIVE SumScaled(_, _)
SumScaled(sp, sf) == IF sp = <<>> THEN 0 ELSE ScaleMul(sp[1], sf) + SumScaled(Tail(sp), sf)
TotalWScaled(scaled, sp, sf) == SumW(scaled) + SumScaled(sp, sf)

\* The loop of lines 250-261 from glyph i on: the paste rectangles.
RECURSIVE PasteRects(_, _, _, _, _, _)
PasteRects(scaled, sp, sf, i, x, ymid) ==
    IF i > Len(scaled) THEN <<>>
    ELSE LET w == scaled[i][1]
             h == scaled[i][2]
             gap == IF i <= Len(sp) THEN ScaleMul(sp[i], sf) ELSE 0
         IN  <<<<x, ymid - (h \div 2), w, h>>>>
                 \o PasteRects(scaled, sp, sf, i + 1, x + w + gap, ymid)

RECURSIVE MinTop(_, _)
MinTop(rects, acc) ==
    IF rects = <<>> THEN acc ELSE MinTop(Tail(rects), Min(acc, rects[1][2]))
RECURSIVE MaxBottom(_, _)
MaxBottom(rects, acc) ==
    IF rects = <<>> THEN acc ELSE MaxBottom(Tail(rects), Max(acc, rects[1][2] + rects[1][4]))

\* x after the loop of lines 250-261
EndX(scaled, sp, sf, x) ==
    x + SumW(scaled) + SumScaled(SubSeq(sp, 1, Min(Len(sp), Len(scaled))), sf)

Inverted(box) == box[3] < box[1] \/ box[4] < box[2]
Degenerate(box) == box[3] <= box[1] \/ box[4] <= box[2]

\* gen_casia_company.py:225-282.  Image.crop of an inverted box raises
\* ValueError in current Pillow and gives an empty image in older ones; the
\* contrast step (ImageStat mean) divides by the pixel count of the crop.
Composite ==
    /\ pc = "composite"
    /\ LET field_width == FieldWidth(reference_field_bbox)
           field_height == FieldHeight(reference_field_bbox)
           tws == TotalWScaled(scaled_char_data, spacings, scale_factor)
           min_x_offset == 5
           max_x_offset == Max(min_x_offset, field_width - tws - 5)
           offsets == IF min_x_offset < max_x_offset
                      THEN min_x_offset..max_x_offset ELSE {min_x_offset}
           field_center_y == reference_field_bbox[2] + (field_height \div 2)
       IN  \E off \in offsets, global_y_jitter \in -2..2 :
              LET paste_x == reference_field_bbox[1] + off
                  rects == PasteRects(scaled_char_data, spacings, scale_factor, 1,
                                      paste_x, field_center_y + global_y_jitter)
                  endx == EndX(scaled_char_data, spacings, scale_factor, paste_x)
                  real_min_y == MinTop(rects, canvas_size[2])
                  real_max_y == MaxBottom(rects, 0)
                  box == << Max(0, paste_x - 5), Max(0, real_min_y - 5),
                            Min(canvas_size[1], endx + 5), Min(canvas_size[2], real_max_y + 5) >>
              IN  /\ total_w_scaled' = tws
                  /\ placed' = rects
                  /\ curr_x' = endx
                  /\ crop_box' = box
                  /\ pc' = "done"
                  /\ IF Degenerate(box) THEN result' \in {"image", "raise"}
                     ELSE result' = "image"
    /\ UNCHANGED <<inputVars, flowInputs, mask_calls, bg_reads, normVars, layoutVars, slotVars>>
    /\ UNCHANGED <<mainVars, pixelVars>>

InitFlow ==
    /\ pc = "check"
    /\ result = "pending"
    /\ char_map \in CharMaps(FlowChars)
    /\ bg_ok \in BOOLEAN
    /\ canvas_size = DefaultCanvas
    /\ company_name \in Labels
    /\ reference_field_bbox \in FlowFields
    /\ mask_calls = 0
    /\ bg_reads = 0
    /\ processed_char_masks = <<>>
    /\ max_h = 0
    /\ normIn = <<>>
    /\ norm_targets = <<>>
    /\ passes = 0
    /\ IdleLayout
    /\ IdlePaste
    /\ target_bboxes = <<>>
    /\ IdleSlot
    /\ IdleMain
    /\ IdlePixel

NextFlow == CheckLabel \/ ExtractChar \/ Normalize \/ Layout \/ LoadBackground \/ Composite

SpecFlow == InitFlow /\ [][NextFlow]_vars

\* The layout step on its own: batches of masks as they leave extraction, and
\* field rectangles of every kind (narrower than 10, no higher than 6, usual).
LayoutSizes == {<<1, 1>>, <<2, 3>>, <<3, 2>>, <<4, 4>>, <<9, 4>>, <<7, 5>>}
LayoutBatches == SeqsUpTo(LayoutSizes, MaxBatch) \ {<<>>}
LayoutFields == {<<5, 5, 5 + fw, 5 + fh>> : fw \in {8, 10, 11, 13, 17, 24}, fh \in {5, 6, 7, 9, 20}}

InitLayout ==
    /\ pc = "normalize"
    /\ result = "pending"
    /\ char_map = [kind |-> "defaultdict", samples |-> [c \in FlowChars |-> 1]]
    /\ bg_ok = TRUE
    /\ canvas_size = DefaultCanvas
    /\ company_name = <<>>
    /\ reference_field_bbox \in LayoutFields
    /\ mask_calls = 0
    /\ bg_reads = 0
    /\ processed_char_masks \in LayoutBatches
    /\ max_h = 0
    /\ normIn = <<>>
    /\ norm_targets = <<>>
    /\ passes = 0
    /\ IdleLayout
    /\ IdlePaste
    /\ target_bboxes = <<>>
    /\ IdleSlot
    /\ IdleMain
    /\ IdlePixel

NextLayout == Normalize \/ Layout \/ LoadBackground

SpecLayout == InitLayout /\ [][NextLayout]_vars

\* ------------------------------------------ generate_capital_number_image

\* gen_handwriting_chinese_price.py:13-23
DEFAULT_BBOXES ==
    << <<141, 493, 182, 532>>, <<199, 492, 235, 534>>, <<255, 492, 291, 534>>,
       <<308, 492, 344, 534>>, <<366, 492, 402, 534>>, <<424, 491, 460, 533>>,
       <<480, 492, 516, 534>>, <<536, 492, 572, 534>>, <<591, 490, 627, 532>> >>

\* gen_handwriting_chinese_price.py:26, the unit characters by name
STATIC_UNITS == <<"YI", "QIAN", "BAI", "SHI", "WAN", "QIAN", "BAI", "SHI", "YUAN">>

\* gen_handwriting_chinese_price.py:29, the capital digits zero to nine by name
TARGET_CHAR_SET == <<"ling", "yi", "er", "san", "si", "wu", "liu", "qi", "ba", "jiu">>

\* gen_handwriting_chinese_price.py:201
weights == <<1, 1, 1, 1, 2, 3, 4, 5, 5>>

max_x_override == 650
padding == 5

\* the digits the model draws
DigitChars == {TARGET_CHAR_SET[d + 1] : d \in 0..MaxDigit}
SlotCharMaps == [kind : Kinds, samples : {f \in PartialMaps(DigitChars) : \A c \in DOMAIN f : f[c] = 1}]

Shifted(bboxes, dx, dy) ==
    [i \in 1..Len(bboxes) |->
        <<bboxes[i][1] + dx, bboxes[i][2] + dy, bboxes[i][3] + dx, bboxes[i][4] + dy>>]

\* the template, one slot fewer, one slot more, the template right of the cap
SlotLayouts ==
    { DEFAULT_BBOXES,
      SubSeq(DEFAULT_BBOXES, 1, 8),
      Append(DEFAULT_BBOXES, <<645, 490, 681, 532>>),
      Shifted(DEFAULT_BBOXES, 600, 0) }
SlotCanvas == <<700, 600>>

\* gen_handwriting_chinese_price.py:162-184
LoadCanvas ==
    /\ pc = "s_load"
    /\ bg_reads' = bg_reads + 1
    /\ IF bg_ok THEN pc' = "s_start" /\ result' = result ELSE Finish("none")
    /\ UNCHANGED <<inputVars, flowInputs, mask_calls, normVars, layoutVars, pasteVars, slotVars>>
    /\ UNCHANGED <<mainVars, pixelVars>>

\* gen_handwriting_chinese_price.py:186-204.  random.choices raises ValueError
\* when the number of weights is not the number of slots.
ChooseStart ==
    /\ pc = "s_start"
    /\ IF Len(weights) # Len(target_bboxes)
       THEN Finish("raise") /\ UNCHANGED start_index
       ELSE /\ start_index' \in {i \in 0..(Len(target_bboxes) - 1) : weights[i + 1] > 0}
            /\ pc' = "s_fill"
            /\ result' = result
    /\ UNCHANGED <<inputVars, flowVars, target_bboxes, label_chars, line_bboxes,
                   paste_failures, struck, final_label, strikeVars>>
    /\ UNCHANGED <<mainVars, pixelVars>>

\* gen_handwriting_chinese_price.py:210
IsBlankSlotLe(i, start) == i <= start
IsBlankSlot(i, start) == i < start

\* every digit whatever the slot
AnyDigit(from) == DigitChars

\* gen_handwriting_chinese_price.py:218-223 and 229: the characters of
\* TARGET_CHAR_SET from position `from` on
current_char_set(from) ==
    {TARGET_CHAR_SET[k] : k \in from..Len(TARGET_CHAR_SET)} \cap DigitChars

\* _paste_single_char, gen_handwriting_chinese_price.py:76-147.  A plain dict
\* raises KeyError at line 77, and the handler's print reads img_path before it
\* is bound: UnboundLocalError leaves the function.  An empty list returns
\* False.  With a sample the paste succeeds, or returns False (unreadable file,
\* empty mask, zero scaled size, any exception after line 80).
PasteOutcomes(cm, char) ==
    IF char \notin DOMAIN cm.samples
    THEN IF cm.kind = "dict" THEN {"raise"} ELSE {"false"}
    ELSE IF cm.samples[char] = 0 THEN {"false"} ELSE {"true", "false"}

\* char_map[char_to_draw] on a defaultdict inserts the missing key.
AfterLookup(cm, char) ==
    IF char \notin DOMAIN cm.samples /\ cm.kind = "defaultdict"
    THEN [cm EXCEPT !.samples = (char :> 0) @@ cm.samples]
    ELSE cm

\* One iteration of the loop of lines 207-231.
FillSlot ==
    /\ pc = "s_fill"
    /\ LET i == Len(label_chars)
           bbox == target_bboxes[i + 1]
           unit_char == STATIC_UNITS[i + 1]
           next == IF i + 1 = Len(target_bboxes) THEN "s_strike" ELSE "s_fill"
       IN  IF IsBlankSlot(i, start_index)
           THEN /\ label_chars' = Append(label_chars, <<" ", unit_char>>)
                /\ line_bboxes' = Append(line_bboxes, bbox)
                /\ pc' = next
                /\ UNCHANGED <<result, char_map, paste_failures>>
           ELSE \E char_to_draw \in
                      (IF i = start_index /\ i # Len(target_bboxes) - 1
                       THEN current_char_set(2) ELSE current_char_set(1)) :
                  \E out \in PasteOutcomes(char_map, char_to_draw) :
                      /\ label_chars' = Append(label_chars, <<char_to_draw, unit_char>>)
                      /\ char_map' = AfterLookup(char_map, char_to_draw)
                      /\ UNCHANGED line_bboxes
                      /\ IF out = "raise"
                         THEN Finish("raise") /\ UNCHANGED paste_failures
                         ELSE /\ paste_failures' =
                                    IF out = "false" THEN paste_failures + 1 ELSE paste_failures
                              /\ pc' = next
                              /\ result' = result
    /\ UNCHANGED <<bg_ok, canvas_size, flowVars, target_bboxes, start_index, struck,
                   final_label, strikeVars>>
    /\ UNCHANGED <<mainVars, pixelVars>>

\* gen_handwriting_chinese_price.py:233-261 as one step: whether the branch is
\* taken.  The polyline it builds touches only pixels; StrikeBegin, StrikeStep
\* and StrikeEnd build it point by point.
Strikethrough ==
    /\ pc = "s_strike"
    /\ struck' \in (IF line_bboxes # <<>> THEN BOOLEAN ELSE {FALSE})
    /\ pc' = "s_crop"
    /\ UNCHANGED <<result, inputVars, flowVars, target_bboxes, fillVars, final_label, strikeVars>>
    /\ UNCHANGED <<mainVars, pixelVars>>

RECURSIVE MinCoord(_, _)
MinCoord(bboxes, k) ==
    IF Len(bboxes) = 1 THEN bboxes[1][k] ELSE Min(bboxes[1][k], MinCoord(Tail(bboxes), k))
RECURSIVE MaxCoord(_, _)
MaxCoord(bboxes, k) ==
    IF Len(bboxes) = 1 THEN bboxes[1][k] ELSE Max(bboxes[1][k], MaxCoord(Tail(bboxes), k))

\* gen_handwriting_chinese_price.py:266-277
FinalCropBoxNoCap(bboxes, size) ==
    << Max(0, MinCoord(bboxes, 1) - padding),
       Max(0, MinCoord(bboxes, 2) - padding),
       Min(size[1], MaxCoord(bboxes, 3) + padding),
       Min(size[2], MaxCoord(bboxes, 4) + padding) >>
FinalCropBox(bboxes, size) ==
    << Max(0, MinCoord(bboxes, 1) - padding),
       Max(0, MinCoord(bboxes, 2) - padding),
       Min(size[1], max_x_override),
       Min(size[2], MaxCoord(bboxes, 4) + padding) >>

\* "".join(label_chars)
RECURSIVE Join(_)
Join(segments) == IF segments = <<>> THEN <<>> ELSE Head(segments) \o Join(Tail(segments))

\* gen_handwriting_chinese_price.py:263-296
FinalCrop ==
    /\ pc = "s_crop"
    /\ final_label' = Join(label_chars)
    /\ crop_box' = FinalCropBox(target_bboxes, canvas_size)
    /\ IF crop_box'[1] >= crop_box'[3] \/ crop_box'[2] >= crop_box'[4]
       THEN Finish("none") ELSE Finish("image")
    /\ UNCHANGED <<inputVars, flowInputs, mask_calls, bg_reads, normVars, layoutVars,
                   total_w_scaled, placed, curr_x, target_bboxes, fillVars, struck, strikeVars>>
    /\ UNCHANGED <<mainVars, pixelVars>>

InitSlot ==
    /\ pc = "s_load"
    /\ result = "pending"
    /\ char_map \in SlotCharMaps
    /\ bg_ok \in BOOLEAN
    /\ canvas_size = SlotCanvas
    /\ target_bboxes \in SlotLayouts
    /\ IdleFlow
    /\ crop_box = <<>>
    /\ IdleSlot
    /\ IdleMain
    /\ IdlePixel

NextSlot == LoadCanvas \/ ChooseStart \/ FillSlot \/ Strikethrough \/ FinalCrop

SpecSlot == InitSlot /\ [][NextSlot]_vars

\* ------------------------------------------------- the strikethrough line

\* a row of nine slots of width sw and height sh, x0 and y0 its top left corner
Row(x0, y0, sw, sh, pitch) ==
    [i \in 1..Len(STATIC_UNITS) |->
        <<x0 + (i - 1) * pitch, y0, x0 + (i - 1) * pitch + sw, y0 + sh>>]

\* label_chars after the loop of lines 207-231 with start index k, every drawn
\* digit being the digit one
FilledLabel(k) ==
    [i \in 1..Len(STATIC_UNITS) |->
        IF i <= k THEN <<" ", STATIC_UNITS[i]>> ELSE <<TARGET_CHAR_SET[2], STATIC_UNITS[i]>>]

FullCharMap == [kind |-> "dict", samples |-> [c \in DigitChars |-> 1]]

StrikeLayouts ==
    {DEFAULT_BBOXES} \cup
    {Row(141, 490, sw, sh, sw + 17) : sw \in {5, 12, 20, 36}, sh \in {42}} \cup
    {Row(141, 490, 36, -2, 53)}

\* gen_handwriting_chinese_price.py:234, the branch not taken
StrikeSkip ==
    /\ pc = "s_strike"
    /\ pc' = "s_crop"
    /\ UNCHANGED <<result, inputVars, flowVars, slotVars>>
    /\ UNCHANGED <<mainVars, pixelVars>>

\* gen_handwriting_chinese_price.py:234-246.  Only the x coordinates of the
\* points are kept.  randint(-field_height // 4, field_height // 4) raises
\* for an empty range; the handler of line 260 catches it and nothing is drawn.
StrikeBegin ==
    /\ pc = "s_strike"
    /\ line_bboxes # <<>>
    /\ LET ref_bbox == line_bboxes[1]
           field_height == ref_bbox[4] - ref_bbox[2]
       IN  \E left \in 3..10, right \in 3..10 :
              /\ x_start' = MinCoord(line_bboxes, 1) + left
              /\ x_end' = MaxCoord(line_bboxes, 3) - right
              /\ IF (-field_height) \div 4 > field_height \div 4
                 THEN pc' = "s_crop" /\ points' = <<>>
                 ELSE pc' = "s_strike_loop" /\ points' = <<x_start'>>
    /\ UNCHANGED <<result, inputVars, flowVars, target_bboxes, fillVars, struck, final_label>>
    /\ UNCHANGED <<mainVars, pixelVars>>

\* gen_handwriting_chinese_price.py:248-253, x is the last point appended
StrikeStep ==
    /\ pc = "s_strike_loop"
    /\ points[Len(points)] < x_end
    /\ \E x_step \in 30..70 :
          points' = Append(points, Min(points[Len(points)] + x_step, x_end))
    /\ UNCHANGED <<pc, result, inputVars, flowVars, target_bboxes, fillVars, struck,
                   final_label, x_start, x_end>>
    /\ UNCHANGED <<mainVars, pixelVars>>

\* gen_handwriting_chinese_price.py:255-258
StrikeEnd ==
    /\ pc = "s_strike_loop"
    /\ ~(points[Len(points)] < x_end)
    /\ points' = [points EXCEPT ![Len(points)] = x_end]
    /\ struck' = TRUE
    /\ pc' = "s_crop"
    /\ UNCHANGED <<result, inputVars, flowVars, target_bboxes, fillVars, final_label,
                   x_start, x_end>>
    /\ UNCHANGED <<mainVars, pixelVars>>

\* the state after the loop of lines 207-231 has filled the slots
AfterFill(layout, k) ==
    /\ result = "pending"
    /\ char_map = FullCharMap
    /\ bg_ok = TRUE
    /\ target_bboxes = layout
    /\ IdleFlow
    /\ start_index = k
    /\ label_chars = FilledLabel(k)
    /\ line_bboxes = SubSeq(layout, 1, k)
    /\ paste_failures = 0
    /\ struck = FALSE
    /\ final_label = <<>>
    /\ IdleStrike
    /\ crop_box = <<>>
    /\ IdleMain
    /\ IdlePixel

InitStrike ==
    /\ pc = "s_strike"
    /\ canvas_size = SlotCanvas
    /\ \E layout \in StrikeLayouts, k \in 0..MaxBlank : AfterFill(layout, k)

NextStrike == StrikeSkip \/ StrikeBegin \/ StrikeStep \/ StrikeEnd

SpecStrike == InitStrike /\ [][NextStrike]_vars

\* ---------------------------------------------------------- the final crop

CropLayouts ==
    {DEFAULT_BBOXES} \cup
    {Row(x0, y0, g[1], g[2], g[3]) :
        x0 \in {-30, 0, 4, 141, 400, 646, 660},
        y0 \in {-50, -3, 0, 490, 600},
        g \in {<<36, 42, 56>>, <<4, 3, 5>>, <<0, 0, 1>>}}
CropCanvases == {<<1, 1>>, <<146, 500>>, <<650, 540>>, <<700, 600>>, <<900, 480>>}

InitCrop ==
    /\ pc = "s_crop"
    /\ canvas_size \in CropCanvases
    /\ \E layout \in CropLayouts, k \in 0..(Len(weights) - 1) : AfterFill(layout, k)

NextCrop == FinalCrop

SpecCrop == InitCrop /\ [][NextCrop]_vars

\* ----------------------------------- main, gen_handwriting_chinese_price.py

\* build_char_map: a defaultdict whose keys all have at least one path
MainCharMaps == {cm \in SlotCharMaps : cm.kind = "defaultdict"}

\* a background as large as the template, and one smaller than its slots
MainCanvases == {SlotCanvas, <<120, 100>>}

\* gen_handwriting_chinese_price.py:307-327
CheckConfig ==
    /\ main_pc = "m_check"
    /\ main_pc' = IF ~bg_exists \/ DOMAIN char_map.samples = {} THEN "m_exit" ELSE "m_loop"
    /\ UNCHANGED <<pc, result, inputVars, flowVars, slotVars, bg_exists, count,
                   successful_generations, pixelVars>>

\* gen_handwriting_chinese_price.py:333-339, the loop test holds and the
\* generator is called with DEFAULT_BBOXES
StartAttempt ==
    /\ main_pc = "m_loop"
    /\ successful_generations < count
    /\ main_pc' = "m_call"
    /\ pc' = "s_load"
    /\ result' = "pending"
    /\ target_bboxes' = DEFAULT_BBOXES
    /\ start_index' = -1
    /\ label_chars' = <<>>
    /\ line_bboxes' = <<>>
    /\ paste_failures' = 0
    /\ struck' = FALSE
    /\ final_label' = <<>>
    /\ crop_box' = <<>>
    /\ bg_reads' = 0
    /\ UNCHANGED <<inputVars, flowInputs, mask_calls, normVars, layoutVars, total_w_scaled,
                   placed, curr_x, strikeVars, bg_exists, count, successful_generations,
                   pixelVars>>

\* gen_handwriting_chinese_price.py:342-343
SkipFailed ==
    /\ main_pc = "m_call"
    /\ pc = "done"
    /\ result = "none"
    /\ main_pc' = "m_loop"
    /\ UNCHANGED <<pc, result, inputVars, flowVars, slotVars, bg_exists, count,
                   successful_generations, pixelVars>>

\* gen_handwriting_chinese_price.py:345-361
SaveImage ==
    /\ main_pc = "m_call"
    /\ pc = "done"
    /\ result = "image"
    /\ successful_generations' = successful_generations + 1
    /\ main_pc' = "m_loop"
    /\ UNCHANGED <<pc, result, inputVars, flowVars, slotVars, bg_exists, count, pixelVars>>

\* gen_handwriting_chinese_price.py:333 and 363-371, the loop test fails
WriteLabels ==
    /\ main_pc = "m_loop"
    /\ ~(successful_generations < count)
    /\ main_pc' = "m_exit"
    /\ UNCHANGED <<pc, result, inputVars, flowVars, slotVars, bg_exists, count,
                   successful_generations, pixelVars>>

InitMain ==
    /\ main_pc = "m_check"
    /\ bg_exists \in BOOLEAN
    /\ bg_ok \in {b \in BOOLEAN : b => bg_exists}
    /\ count \in 0..MaxCount
    /\ successful_generations = 0
    /\ char_map \in MainCharMaps
    /\ canvas_size \in MainCanvases
    /\ pc = "idle"
    /\ result = "pending"
    /\ target_bboxes = DEFAULT_BBOXES
    /\ IdleFlow
    /\ crop_box = <<>>
    /\ IdleSlot
    /\ IdlePixel

NextMain ==
    \/ CheckConfig \/ StartAttempt \/ SkipFailed \/ SaveImage \/ WriteLabels
    \/ LoadCanvas \/ ChooseStart \/ FillSlot \/ Strikethrough \/ FinalCrop

\* main is one sequential program: it always takes its next step
SpecMain == InitMain /\ [][NextMain]_vars /\ WF_vars(NextMain)

\* ------------------------------------------------------- the glyph masks

\* intensities of a mode 'L' image
MaxIntensity == 255

\* gen_casia_company.py:87-92, the value img_gray.point gives a pixel
FlowPoint(bg, p) ==
    IF bg > 128
    THEN IF p < 230 THEN 255 ELSE 0
    ELSE IF p > 50 THEN 255 ELSE 0

\* gen_handwriting_chinese_price.py:84
PastePoint(p) == IF p < 200 THEN 255 ELSE 0

\* _get_char_mask, gen_casia_company.py:82-92
BinarizeFlow ==
    /\ pc = "binarize"
    /\ mask_value' = FlowPoint(bg_pixel_value, pixel)
    /\ pc' = "flow_mask"
    /\ UNCHANGED <<result, inputVars, flowVars, slotVars, mainVars, bg_pixel_value, pixel>>

\* _paste_single_char, gen_handwriting_chinese_price.py:81-84
BinarizePaste ==
    /\ pc = "binarize"
    /\ mask_value' = PastePoint(pixel)
    /\ pc' = "paste_mask"
    /\ UNCHANGED <<result, inputVars, flowVars, slotVars, mainVars, bg_pixel_value, pixel>>

InitPixel ==
    /\ pc = "binarize"
    /\ result = "pending"
    /\ bg_pixel_value \in 0..MaxIntensity
    /\ pixel \in 0..MaxIntensity
    /\ mask_value = 0
    /\ char_map = FullCharMap
    /\ bg_ok = TRUE
    /\ canvas_size = SlotCanvas
    /\ target_bboxes = <<>>
    /\ IdleFlow
    /\ crop_box = <<>>
    /\ IdleSlot
    /\ IdleMain

NextPixel == BinarizeFlow \/ BinarizePaste

SpecPixel == InitPixel /\ [][NextPixel]_vars

\* ------------------------------------- _paste_single_char, the geometry

\* sizes of mask_cropped (line 103): small, square, wide, one pixel wide
PasteMaskSizes == {<<3, 4>>, <<10, 10>>, <<30, 10>>, <<1, 40>>}

\* values <<n, d>> of random.uniform(0.7, 0.95) * random.uniform(0.9, 1.1)
ScaleProducts == {<<16, 25>>, <<4, 5>>, <<1, 1>>, <<26, 25>>}

\* the template, a row of 16 x 16 slots, a row of slots of negative width
PasteLayouts == {DEFAULT_BBOXES, Row(141, 490, 16, 16, 20), Row(141, 490, -4, 42, 20)}

\* int(m * ((field_width * 1.2) / mask_width)) for the exact quotient n / d:
\* the double product of an exact integer quotient can fall just short of it,
\* so both truncations are kept; otherwise the truncation of n / d.
ClampChoices(n, d) ==
    IF n % d = 0 /\ n # 0
    THEN {n \div d, IF n > 0 THEN n \div d - 1 ELSE n \div d + 1}
    ELSE {Trunc(n, d)}

\* gen_handwriting_chinese_price.py:105-124: the sizes <<new_width, new_height>>
\* for the scale product f; new_width > field_width * 1.2 compares as
\* 5 new_width > 6 field_width.
ScaledSizes(mask, bbox, f) ==
    LET field_width == bbox[3] - bbox[1]
        field_height == bbox[4] - bbox[2]
        new_width == Trunc(mask[1] * field_height * f[1], mask[2] * f[2])
        new_height == Trunc(field_height * f[1], f[2])
    IN  IF 5 * new_width > 6 * field_width
        THEN ClampChoices(6 * field_width, 5)
                \X ClampChoices(mask[2] * 6 * field_width, 5 * mask[1])
        ELSE {<<new_width, new_height>>}

\* random.randint(-n // 8, n // 8), empty when n is negative (ValueError)
JitterRange(n) == ((-n) \div 8)..(n \div 8)

\* gen_handwriting_chinese_price.py:128-138, the positions the paste can take
PastePositions(bbox, size) ==
    LET field_width == bbox[3] - bbox[1]
        field_height == bbox[4] - bbox[2]
        x_center_offset == (field_width - size[1]) \div 2
        y_center_offset == (field_height - size[2]) \div 2
    IN  {<<bbox[1] + x_center_offset + x_jitter, bbox[2] + y_center_offset + y_jitter>> :
            x_jitter \in JitterRange(field_width), y_jitter \in JitterRange(field_height)}

\* _paste_single_char for the slot whose segment was appended last, lines
\* 76-147 with the geometry of lines 105-141.  It returns False when the sample
\* cannot be read, when a scaled size is 0, and when resize or randint raises
\* (size below 0, empty jitter range); the caller goes on either way.
PasteSingleChar ==
    /\ pc = "s_paste"
    /\ LET i == Len(label_chars) - 1
           bbox == target_bboxes[i + 1]
       IN  /\ \E readable \in BOOLEAN, mask \in PasteMaskSizes, f \in ScaleProducts :
               \E size \in ScaledSizes(mask, bbox, f) :
                 LET positions == PastePositions(bbox, size)
                 IN  IF ~readable \/ size[1] <= 0 \/ size[2] <= 0 \/ positions = {}
                     THEN /\ paste_failures' = paste_failures + 1
                          /\ placed' = placed
                     ELSE /\ paste_failures' = paste_failures
                          /\ \E pos \in positions :
                                placed' = Append(placed, <<pos[1], pos[2], size[1], size[2]>>)
           /\ pc' = IF i + 1 = Len(target_bboxes) THEN "s_strike" ELSE "s_fill"
    /\ UNCHANGED <<result, inputVars, flowInputs, mask_calls, bg_reads, normVars, layoutVars,
                   total_w_scaled, curr_x, crop_box, target_bboxes, start_index, label_chars,
                   line_bboxes, struck, final_label, strikeVars, mainVars, pixelVars>>

\* the paste of the last slot's digit is about to be made
InitPaste ==
    /\ pc = "s_paste"
    /\ canvas_size = SlotCanvas
    /\ \E layout \in PasteLayouts : AfterFill(layout, Len(layout) - 1)

NextPaste == PasteSingleChar \/ Strikethrough \/ FinalCrop

SpecPaste == InitPaste /\ [][NextPaste]_vars

\* ------------------------------------------------------- both generators

Init == InitFlow \/ InitSlot

Next == NextFlow \/ NextSlot

Spec == Init /\ [][Next]_vars

\* ------------------------------------------------ claims: flowing mode

\* C2: a label with a character that is not in the sample index gives
\* (None, None): no exception, no glyph extraction, no read of the background,
\* nothing pasted and nothing cropped, wherever the character stands.
MissingCharNoResult ==
    (\E i \in 1..Len(company_name) : company_name[i] \notin DOMAIN char_map.samples)
        => /\ result \in {"pending", "none"}
           /\ pc \in {"check", "done"}
           /\ pc = "done" => result = "none"
           /\ mask_calls = 0
           /\ bg_reads = 0
           /\ placed = <<>>
           /\ crop_box = <<>>

\* The call has returned for a label whose first character has a sample and
\* whose second character is missing.
MissingCharWitness ==
    /\ pc = "done"
    /\ result = "none"
    /\ Len(company_name) = 2
    /\ company_name[1] \in DOMAIN char_map.samples
    /\ char_map.samples[company_name[1]] = 1
    /\ company_name[2] \notin DOMAIN char_map.samples

\* C5: once the layout is made, the scaled glyph widths plus the scaled
\* spacings, each truncated to an integer, sum to at most fieldWidth - 10, and
\* so does the extent from the first pasted glyph to the end of the run.
PlacedWidthFits ==
    (pc \in {"background", "composite"} \/ (pc = "done" /\ placed # <<>>))
        => /\ TotalWScaled(scaled_char_data, spacings, scale_factor)
                 <= FieldWidth(reference_field_bbox) - 10
           /\ placed # <<>> =>
                 /\ total_w_scaled <= FieldWidth(reference_field_bbox) - 10
                 /\ curr_x - placed[1][1] <= FieldWidth(reference_field_bbox) - 10

\* A layout of two glyphs whose scale was shrunk to fit the field.
PlacedWidthWitness ==
    /\ pc = "background"
    /\ scale_factor.fit
    /\ Len(scaled_char_data) = 2
    /\ TotalWScaled(scaled_char_data, spacings, scale_factor) > 0

\* ------------------------------------------------- claims: normalization

\* The rule the flat-glyph claim states for one mask of a batch whose maximum
\* height is mh; <<>> when the computed width is 0 (the glyph is dropped).
FlatRuleTarget(m, mh) ==
    IF m[1] > 2 * m[2]
    THEN LET tw == (9 * mh) \div 10
         IN  IF tw = 0 THEN <<>>
             ELSE <<tw, Max(DivRatio(tw, m[1], m[2]), (15 * mh) \div 100)>>
    ELSE LET w == MulRatio(mh, m[1], m[2])
         IN  IF w = 0 THEN <<>> ELSE <<w, mh>>

\* C9: a mask gets the width-first rule iff its width exceeds twice its height,
\* whatever the rest of the batch is: a flat mask gets width int(0.9 maxH) and
\* height max(int(width / r), int(0.15 maxH)), every other mask gets height maxH
\* and width int(maxH * r), with maxH the maximum mask height of the batch.
FlatRuleHolds ==
    \A i \in 1..Len(norm_targets) :
        norm_targets[i] = FlatRuleTarget(normIn[i], MaxHeight(normIn))

\* A normalized batch that holds a flat glyph whose height is the 0.15 maxH
\* floor, a flat glyph whose height is int(width / r), and a non-flat glyph.
FlatRuleWitness ==
    /\ passes = 1
    /\ pc = "layout"
    /\ \E i, j \in 1..Len(normIn) :
          /\ normIn[i][1] > 2 * normIn[i][2]
          /\ normIn[j][1] <= 2 * normIn[j][2]
          /\ norm_targets[i] # <<>>
          /\ norm_targets[j] # <<>>

\* C8: normalizing a batch that is itself the output of the normalization step
\* gives every glyph the same width and height and drops none.
NormIdempotent ==
    (passes >= 2 /\ pc # "normalize")
        => (pc = "layout" /\ processed_char_masks = normIn)

\* C10: every size the normalization step hands to resize has width >= 1 and
\* height >= 1.
NormalizedSizeInvariant ==
    \A i \in 1..Len(norm_targets) :
        norm_targets[i] # <<>> => (norm_targets[i][1] >= 1 /\ norm_targets[i][2] >= 1)

\* --------------------------------------------------- claims: slotted mode

\* C1: the label returned with an image has one two-part segment per slot, in
\* slot order, each ending in the slot's unit character; the segments that begin
\* with the blank marker are exactly the slots with index below the start index,
\* and the last slot is never blank.
LabelShape ==
    (result = "image") =>
        LET n == Len(target_bboxes)
        IN  /\ Len(label_chars) = n
            /\ Len(final_label) = 2 * n
            /\ start_index \in 0..(n - 1)
            /\ \A i \in 1..n :
                  /\ final_label[2 * i] = STATIC_UNITS[i]
                  /\ (final_label[2 * i - 1] = " ") <=> (i - 1 < start_index)
            /\ final_label[2 * n - 1] # " "

\* The template layout with start index 4: four blank segments, then digits.
LabelShapeWitness ==
    /\ result = "image"
    /\ target_bboxes = DEFAULT_BBOXES
    /\ start_index = 4
    /\ final_label[7] = " "
    /\ final_label[9] # " "

\* C3: an image is never returned when the paste of a chosen digit failed.
FailFast == (result = "image") => (paste_failures = 0)

\* C4: neither generator lets an exception reach its caller.
NeverRaises == result # "raise"

\* C6: the polyline handed to draw.line starts at or after the left inset, ends
\* exactly at the right inset, has no point beyond it, and never moves left.
StrikeWithinInsets ==
    (pc = "s_crop" /\ struck) =>
        /\ points[1] >= x_start
        /\ points[Len(points)] = x_end
        /\ \A i \in 1..Len(points) : points[i] <= x_end
        /\ \A i \in 1..(Len(points) - 1) : points[i] <= points[i + 1]

\* C7: the crop box of a returned image has positive width and height, lies
\* within the canvas and ends at or left of the cap; an inverted or zero-area
\* box gives no result.
CropBoxSafe ==
    (pc = "done" /\ target_bboxes # <<>> /\ crop_box # <<>>) =>
        /\ result \in {"image", "none"}
        /\ (result = "image") =>
              /\ 0 <= crop_box[1] /\ crop_box[1] < crop_box[3]
              /\ 0 <= crop_box[2] /\ crop_box[2] < crop_box[4]
              /\ crop_box[3] <= canvas_size[1]
              /\ crop_box[4] <= canvas_size[2]
              /\ crop_box[3] <= max_x_override
              /\ crop_box[3] - crop_box[1] <= max_x_override
        /\ (crop_box[1] >= crop_box[3] \/ crop_box[2] >= crop_box[4]) => (result = "none")

\* An image cut at the cap out of a canvas wider than the cap.
CropBoxWitness ==
    /\ result = "image"
    /\ canvas_size[1] > max_x_override
    /\ crop_box[3] = max_x_override
    /\ crop_box[1] > 0

\* ----------------------------------------------- claims: label and image

\* C11: an image returned by generate_synthetic_image shows one pasted glyph
\* per character of its label.
GlyphPerChar ==
    (result = "image" /\ company_name # <<>>) => Len(placed) = Len(company_name)

\* C12: the batch driver always terminates.
MainTerminates == <>(main_pc = "m_exit")

\* C13: the digit drawn at the start index is not zero unless the start index
\* is the last slot, in the list of segments and in the returned label.
NoLeadingZero ==
    (start_index >= 0 /\ Len(label_chars) > start_index
        /\ start_index # Len(target_bboxes) - 1) =>
        /\ label_chars[start_index + 1][1] # TARGET_CHAR_SET[1]
        /\ (result = "image") => final_label[2 * start_index + 1] # TARGET_CHAR_SET[1]

\* A returned label whose first digit, in the last slot but one, is not zero
\* and whose last digit is zero.
NoLeadingZeroWitness ==
    /\ result = "image"
    /\ start_index = Len(target_bboxes) - 2
    /\ final_label[2 * start_index + 1] = TARGET_CHAR_SET[2]
    /\ final_label[2 * start_index + 3] = TARGET_CHAR_SET[1]

\* C14: in both modes a pixel is foreground iff it is darker than 230 on a
\* light background (top-left pixel above 128), brighter than 50 otherwise.
PolarityRule ==
    (pc \in {"flow_mask", "paste_mask"}) =>
        ((mask_value = 255) <=>
            (IF bg_pixel_value > 128 THEN pixel < 230 ELSE pixel > 50))

\* C15: a pasted glyph is away from the slot-centred position by at most one
\* eighth of the slot width horizontally and of the slot height vertically.
JitterWithinEighth ==
    (target_bboxes # <<>> /\ placed # <<>>) =>
        LET bbox == target_bboxes[Len(label_chars)]
            r == placed[Len(placed)]
            dx == r[1] - (bbox[1] + ((bbox[3] - bbox[1]) - r[3]) \div 2)
            dy == r[2] - (bbox[2] + ((bbox[4] - bbox[2]) - r[4]) \div 2)
        IN  /\ 8 * dx <= bbox[3] - bbox[1] /\ 8 * (-dx) <= bbox[3] - bbox[1]
            /\ 8 * dy <= bbox[4] - bbox[2] /\ 8 * (-dy) <= bbox[4] - bbox[2]

\* C16: the crop box of a returned image contains the part of every pasted
\* glyph that lies on the canvas and, in slotted mode, left of the cap.
CropContainsGlyphs ==
    (result = "image") =>
        \A k \in 1..Len(placed) :
            LET r == placed[k]
                right == IF target_bboxes # <<>>
                         THEN Min(canvas_size[1], max_x_override) ELSE canvas_size[1]
                x1 == Max(0, r[1])
                y1 == Max(0, r[2])
                x2 == Min(right, r[1] + r[3])
                y2 == Min(canvas_size[2], r[2] + r[4])
            IN  (x1 < x2 /\ y1 < y2) =>
                    /\ crop_box[1] <= x1 /\ x2 <= crop_box[3]
                    /\ crop_box[2] <= y1 /\ y2 <= crop_box[4]

====
